---- MODULE Spec2Model ----
(***************************************************************************)
(* PicoSync: the device presence monitor, the file change detector and the *)
(* sync dispatcher of backend/config/core/pico_sync_manager.py.            *)
(*                                                                         *)
(* The specifications share the definitions below:                         *)
(*   SpecWatcher  PicoFileWatcher driven by filesystem events and a clock  *)
(*   SpecMonitor  monitor_usb driven by per-poll enumeration results       *)
(*   Spec         the manager: monitor thread, Tk event loop, observer     *)
(*                callback, sync dispatcher thread and helper threads      *)
(*   SpecBatch    the manager under every configuration, full syncs only   *)
(*   SpecGateway  the manager with every thread that runs mpremote         *)
(*   SpecConfig   the settings, save_config, shutdown and the next startup  *)
(*   SpecLoops    the manager with enumerations and copies that raise      *)
(*   SpecFair     the manager with its threads scheduled fairly            *)
(*   SpecHang     SpecFair with an mpremote child that never returns       *)
(*   SpecSession  connection sessions with the watch directory and the     *)
(*                observer setup changing underneath                       *)
(*   SpecCreated  PicoFileWatcher with 'created' events as well            *)
(*   SpecRace     on_modified called on two threads at once                *)
(*   SpecBootsel  the bootloader signal and the callback it schedules      *)
(*   SpecVariant  the board variant over several connections               *)
(*   SpecFlash    the download_and_flash thread                            *)
(*   SpecAutoOff  auto sync switched off while items are queued            *)
(* Of the widgets, the button states and the device file list are state   *)
(* of the model; the calls a background thread makes on a widget itself    *)
(* are recorded in direct_writes.  Of the log, the entries written while a *)
(* work item is processed are kept, in the worker's log field.             *)
(***************************************************************************)
EXTENDS Integers, Sequences, FiniteSets, TLC

\* ---------------------------------------------------------------- bounds
MaxEvents == 4        \* filesystem events in one run of SpecWatcher
MaxTime == 5          \* clock ticks in one run of SpecWatcher
TicksPerSecond == 2   \* clock resolution
MaxPolls == 4         \* polls in one run of SpecMonitor
MaxUi == 1            \* callbacks pending in the Tk event loop (Spec)
MaxEnq == 2           \* work items put on sync_queue in one run
MaxLs == 1            \* do_refresh threads running at a time
MaxWipe == 1          \* do_wipe threads running at a time

\* ------------------------------------------------------- program constants
DebounceSeconds == 1
Window == DebounceSeconds * TicksPerSecond

None == "None"
Raise == "raise"
NoTime == -1

\* A path is a directory part, a stem and an extension: dir/stem.ext
File(d, s, e) == [dir |-> d, stem |-> s, ext |-> e]
SyncDir == "proj"
FileOrder == << File("", "a", "py"), File("", "b", "py"),
                File("", "n", "txt"), File("sub", "a", "py") >>
AllFiles == { FileOrder[i] : i \in 1..Len(FileOrder) }
\* the contents the sync directory can have when it is enumerated
DirListings == { {}, { File("", "a", "py"), File("", "n", "txt") }, AllFiles }
\* the files the user selects for upload, and the files whose changes the
\* watcher reports while the manager runs
UploadFiles == { File("", "a", "py") }
ChangedFiles == { File("", "a", "py"), File("sub", "a", "py") }
\* filesystem events the observer can deliver: a path and event.is_directory
WatchEvents == { [src_path |-> File("", "a", "py"), is_directory |-> FALSE],
                 [src_path |-> File("", "b", "py"), is_directory |-> FALSE],
                 [src_path |-> File("", "n", "txt"), is_directory |-> FALSE],
                 [src_path |-> File("", "pkg", "py"), is_directory |-> TRUE] }
WatchPaths == { e.src_path : e \in WatchEvents }
\* the 'created' events the observer can deliver, and the 'modified' events
\* delivered along with them
CreatedEvents == { e \in WatchEvents : e.src_path.stem # "b" }
ModifiedAlong == { e \in WatchEvents : e.src_path.stem = "a" }

\* the keys save_config writes, and those holding a bool
ConfigKeys == { "sync_directory", "auto_sync", "file_types", "sync_subdirs",
                "auto_flash", "show_notifications", "log_level" }
BoolKeys == { "auto_sync", "sync_subdirs", "auto_flash", "show_notifications" }
Patterns == { [stem |-> "*", ext |-> "py"], [stem |-> "*", ext |-> "txt"] }
LogLevels == { "INFO", "DEBUG" }
\* the values the variables of the settings tab can hold
SettingsValues == [file_types : Patterns, sync_subdirs : BOOLEAN, auto_flash : BOOLEAN,
                   show_notifications : BOOLEAN, log_level : LogLevels]
\* the defaults of the self.config.get(...) calls that create those variables
DefaultSettings == [file_types |-> [stem |-> "*", ext |-> "py"], sync_subdirs |-> TRUE,
                    auto_flash |-> FALSE, show_notifications |-> TRUE,
                    log_level |-> "INFO"]

BootselDrives == { "E:" }
\* the mount points at which a sentinel can be found when two boards are used
BootselMounts == { "E:", "F:" }
\* serial ports the OS can list: device name, and whether hwid/description
\* carry a Pico identifier
PortRecs == { [device |-> "COM1", hwid_2e8a |-> FALSE, desc_pico |-> FALSE],
              [device |-> "COM3", hwid_2e8a |-> TRUE,  desc_pico |-> FALSE],
              [device |-> "COM4", hwid_2e8a |-> FALSE, desc_pico |-> TRUE] }
PortListings == { <<>>, << CHOOSE r \in PortRecs : r.device = "COM1" >>,
                  << CHOOSE r \in PortRecs : r.device = "COM1",
                     CHOOSE r \in PortRecs : r.device = "COM3" >>,
                  << CHOOSE r \in PortRecs : r.device = "COM4" >> }

VARIABLES
    \* PicoFileWatcher
    now,              \* time.time(), in ticks
    last_modified,    \* PicoFileWatcher.last_modified (NoTime: key absent)
    ev_hist,          \* history: the events delivered and whether each called back
    created_sleep,    \* the event on_created sleeps on (NoSleep: none)
    \* monitor_usb
    bootsel_detected, \* local flag of monitor_usb
    bootsel_drive,    \* local variable of monitor_usb
    pico_connected,
    current_port,
    usb_thread,       \* the thread running monitor_usb: running or exited
    poll_hist,        \* history: result and transitions of every poll
    \* Tk event loop
    ui_queue,         \* callbacks scheduled with root.after(0, ...)
    ui_pc,            \* where the Tk thread is: idle, or blocked in a gateway call
    dir_var,          \* the sync directory ("" when none is set)
    auto_sync_enabled,
    settings,         \* the Tk variables of the settings tab
    config,           \* self.config, a dict
    file_observer,    \* None or the Observer last started
    observers,        \* number of Observer threads alive
    buttons_enabled,  \* state of the Sync/Flash/Wipe/Reset buttons
    pico_tree,        \* the device file list shown: "empty" or "listed"
    \* operating system
    config_file,      \* CONFIG_FILE: whether it exists and its JSON document
    dir_exists,       \* os.path.exists of the sync directory
    watch_ok,         \* whether the OS sets up a watch (Observer.start() raises if not)
    \* dispatcher
    sync_queue,
    enq_count,        \* history: number of put() calls so far
    pop_count,        \* history: number of get() calls that returned an item
    last_popped,      \* history: seq of the item the last get() returned
    worker,           \* per sync thread: position and the item it works on
    \* helper threads
    ls_threads,       \* running do_refresh threads
    wipe_threads,     \* running do_wipe threads
    flash_pc,         \* where the download_and_flash thread is ("none": not running)
    direct_writes,    \* history: widget calls made on a thread other than Tk's
    \* board variant
    pico_model,       \* self.pico_model: None, "RP2040" or "RP2350"
    detect_result,    \* how the identification call ends on the device attached
    \* threads inside on_modified
    delivery,         \* per delivering thread: idle, or past the debounce test
    \* the callback scheduled at line 514
    bootsel_found,    \* history: the drives found by the polls whose callback is pending
    bootsel_passed    \* history: per run of on_bootsel_detected, drive found and drive passed

watcherVars == << now, last_modified, ev_hist, created_sleep >>
monitorVars == << bootsel_detected, bootsel_drive, pico_connected, current_port,
                  usb_thread, poll_hist >>
uiVars == << ui_pc, dir_var, auto_sync_enabled, settings, config, file_observer,
             observers, buttons_enabled, pico_tree >>
osVars == << config_file, dir_exists, watch_ok >>
workerVars == << pop_count, last_popped, worker >>
threadVars == << ls_threads, wipe_threads >>
flashVars == << flash_pc, direct_writes >>
deviceVars == << pico_model, detect_result >>
raceVars == << delivery >>
closureVars == << bootsel_found, bootsel_passed >>
vars == << now, last_modified, ev_hist, created_sleep, bootsel_detected, bootsel_drive,
           pico_connected, current_port, usb_thread, poll_hist, ui_queue,
           ui_pc, dir_var, auto_sync_enabled, settings, config, file_observer,
           observers, buttons_enabled, pico_tree, config_file, dir_exists, watch_ok,
           sync_queue, enq_count, pop_count,
           last_popped, worker, ls_threads, wipe_threads, flash_pc, direct_writes,
           pico_model, detect_result, delivery, bootsel_found, bootsel_passed >>

\* ------------------------------------------------------------ sync_queue
\* queue.Queue(): put appends at the tail, get removes the head
QueuePut_Front(q, item) == << item >> \o q
QueuePut_Dedup(q, item) ==
    IF \E k \in 1..Len(q) : q[k].type = item.type /\ q[k].data = item.data
    THEN q ELSE Append(q, item)
QueuePut(q, item) == Append(q, item)

\* A work item as put on the queue; seq and enq_conn are history fields
\* (the position in enqueue order, pico_connected at enqueue time).
WorkItem(type, data) ==
    [type |-> type, data |-> data, seq |-> enq_count + 1, enq_conn |-> pico_connected]

\* self.sync_queue.put((type, data))
SyncQueuePut(type, data) ==
    /\ sync_queue' = QueuePut(sync_queue, WorkItem(type, data))
    /\ enq_count' = enq_count + 1

\* on_file_changed(filepath)
on_file_changed(filepath) == SyncQueuePut("file", filepath)

\* ------------------------------------------------------- PicoFileWatcher
\* created_sleep while the observer thread is not inside on_created
NoSleep == [path |-> File("", "", ""), t |-> NoTime]
EndsWithPy(path) == path.ext = "py"

\* the debounce test of on_modified
WithinDebounce_Inclusive(lm, path, t) == lm[path] # NoTime /\ t - lm[path] <= Window
WithinDebounce(lm, path, t) == lm[path] # NoTime /\ t - lm[path] < Window

\* PicoFileWatcher.on_modified(event)
on_modified_RecordsDiscarded(path, is_directory) ==
    IF is_directory
    THEN UNCHANGED << last_modified, sync_queue, enq_count >>
    ELSE IF EndsWithPy(path)
         THEN /\ last_modified' = [last_modified EXCEPT ![path] = now]
              /\ IF WithinDebounce(last_modified, path, now)
                 THEN UNCHANGED << sync_queue, enq_count >>
                 ELSE on_file_changed(path)
         ELSE UNCHANGED << last_modified, sync_queue, enq_count >>
on_modified(path, is_directory) ==
    IF is_directory
    THEN UNCHANGED << last_modified, sync_queue, enq_count >>
    ELSE IF EndsWithPy(path)
         THEN IF WithinDebounce(last_modified, path, now)
              THEN UNCHANGED << last_modified, sync_queue, enq_count >>
              ELSE /\ last_modified' = [last_modified EXCEPT ![path] = now]
                   /\ on_file_changed(path)
         ELSE UNCHANGED << last_modified, sync_queue, enq_count >>

\* the observer thread delivers a 'modified' event of Events
ModifiedOn(Events) ==
    \E event \in Events :
        /\ Len(ev_hist) < MaxEvents
        /\ created_sleep = NoSleep
        /\ on_modified(event.src_path, event.is_directory)
        /\ ev_hist' = Append(ev_hist, [kind |-> "modified", path |-> event.src_path,
                                       is_dir |-> event.is_directory, t |-> now,
                                       accepted |-> Len(sync_queue') > Len(sync_queue)])
        /\ UNCHANGED << now, created_sleep, monitorVars, ui_queue, uiVars, osVars,
                        workerVars, threadVars, flashVars, closureVars, raceVars,
                        deviceVars >>
Modified == ModifiedOn(WatchEvents)

\* on_modified called on several threads at once.  The method takes no lock:
\* the test of last_modified (lines 42-44) and the assignment (line 45) are
\* separate statements and another thread can run between them.
DeliveryThreads == { "delivery_1", "delivery_2" }
IdleDelivery == [pc |-> "idle", path |-> File("", "", ""), t |-> NoTime]
Delivering == Cardinality({ d \in DeliveryThreads : delivery[d].pc # "idle" })

\* on_modified up to and including the debounce test
ModifiedCheck(d) ==
    \E event \in ModifiedAlong \cup { e \in WatchEvents : e.is_directory } :
        /\ delivery[d].pc = "idle"
        /\ Len(ev_hist) + Delivering < MaxEvents
        /\ IF event.is_directory \/ ~EndsWithPy(event.src_path)
              \/ WithinDebounce(last_modified, event.src_path, now)
           THEN /\ ev_hist' = Append(ev_hist,
                       [kind |-> "modified", path |-> event.src_path,
                        is_dir |-> event.is_directory, t |-> now, accepted |-> FALSE])
                /\ UNCHANGED delivery
           ELSE /\ delivery' = [delivery EXCEPT ![d] =
                       [pc |-> "checked", path |-> event.src_path, t |-> now]]
                /\ UNCHANGED ev_hist
        /\ UNCHANGED << now, last_modified, created_sleep, sync_queue, enq_count,
                        monitorVars, ui_queue, uiVars, osVars, workerVars, threadVars,
                        flashVars, closureVars, deviceVars >>

\* on_modified after the test: the timestamp is recorded and the callback runs
ModifiedCommit(d) ==
    /\ delivery[d].pc = "checked"
    /\ delivery' = [delivery EXCEPT ![d] = IdleDelivery]
    /\ last_modified' = [last_modified EXCEPT ![delivery[d].path] = delivery[d].t]
    /\ on_file_changed(delivery[d].path)
    /\ ev_hist' = Append(ev_hist, [kind |-> "modified", path |-> delivery[d].path,
                                   is_dir |-> FALSE, t |-> delivery[d].t,
                                   accepted |-> TRUE])
    /\ UNCHANGED << now, created_sleep, monitorVars, ui_queue, uiVars, osVars,
                    workerVars, threadVars, flashVars, closureVars, deviceVars >>

\* the ledger after on_created: it is neither read nor written
CreatedLedger_Records(lm, path, t) == [lm EXCEPT ![path] = t]
CreatedLedger(lm, path, t) == lm

\* PicoFileWatcher.on_created(event): a directory or a name that does not end
\* in '.py' returns at once, any other event starts the sleep
Created ==
    \E event \in CreatedEvents :
        /\ Len(ev_hist) < MaxEvents
        /\ created_sleep = NoSleep
        /\ IF ~event.is_directory /\ EndsWithPy(event.src_path)
           THEN /\ created_sleep' = [path |-> event.src_path, t |-> now]
                /\ UNCHANGED ev_hist
           ELSE /\ UNCHANGED created_sleep
                /\ ev_hist' = Append(ev_hist, [kind |-> "created", path |-> event.src_path,
                                               is_dir |-> event.is_directory, t |-> now,
                                               accepted |-> FALSE])
        /\ UNCHANGED << now, last_modified, sync_queue, enq_count, monitorVars,
                        ui_queue, uiVars, osVars, workerVars, threadVars, flashVars,
                        closureVars, raceVars, deviceVars >>

\* on_created: time.sleep(0.1) returns and the callback is called
CreatedEmit ==
    /\ created_sleep # NoSleep
    /\ created_sleep' = NoSleep
    /\ last_modified' = CreatedLedger(last_modified, created_sleep.path, now)
    /\ on_file_changed(created_sleep.path)
    /\ ev_hist' = Append(ev_hist, [kind |-> "created", path |-> created_sleep.path,
                                   is_dir |-> FALSE, t |-> created_sleep.t,
                                   accepted |-> Len(sync_queue') > Len(sync_queue)])
    /\ UNCHANGED << now, monitorVars, ui_queue, uiVars, osVars, workerVars, threadVars,
                    flashVars, closureVars, raceVars, deviceVars >>

Tick ==
    /\ now < MaxTime
    /\ now' = now + 1
    /\ UNCHANGED << last_modified, ev_hist, created_sleep, monitorVars, ui_queue,
                    sync_queue, enq_count, uiVars, osVars, workerVars, threadVars,
                    flashVars, closureVars, raceVars, deviceVars >>

\* ------------------------------------------------------------ monitor_usb
\* the port scan of monitor_usb: first port with a Pico identifier
RECURSIVE FindPicoPort(_)
FindPicoPort(ports) ==
    IF ports = <<>> THEN None
    ELSE IF Head(ports).hwid_2e8a \/ Head(ports).desc_pico
         THEN Head(ports).device
         ELSE FindPicoPort(Tail(ports))

\* transitions of the bootloader signal for drive b found by find_bootsel_drive
BootselEdge_NoGuard(b, flag) ==
    IF b # None THEN "BootloaderDetected"
    ELSE IF b = None /\ flag THEN "BootloaderLost" ELSE None
BootselEdge(b, flag) ==
    IF b # None /\ ~flag THEN "BootloaderDetected"
    ELSE IF b = None /\ flag THEN "BootloaderLost" ELSE None

\* transitions of the serial signal for the port found by the scan
SerialEdge_NoElif(port, connected) ==
    IF port # None /\ ~connected THEN "Connected"
    ELSE IF port = None THEN "Disconnected" ELSE None
SerialEdge(port, connected) ==
    IF port # None /\ ~connected THEN "Connected"
    ELSE IF port = None /\ connected THEN "Disconnected" ELSE None

\* the guard flag after the transitions evs
BootselFlag_SerialResets(evs, flag) ==
    IF \E k \in 1..Len(evs) : evs[k] = "BootloaderDetected" THEN TRUE
    ELSE IF \E k \in 1..Len(evs) : evs[k] \in { "BootloaderLost", "Disconnected" }
         THEN FALSE ELSE flag
BootselFlag(evs, flag) ==
    IF \E k \in 1..Len(evs) : evs[k] = "BootloaderDetected" THEN TRUE
    ELSE IF \E k \in 1..Len(evs) : evs[k] = "BootloaderLost" THEN FALSE
    ELSE flag

\* exceptions, by class: subprocess.CalledProcessError and OSError, both
\* subclasses of Exception
ExceptionKinds == { "CalledProcessError", "OSError" }
\* the clause 'except Exception' around an iteration of monitor_usb
MonitorCatches(kind) == kind \in ExceptionKinds

EventSeq(e) == IF e = None THEN <<>> ELSE << e >>
Callbacks(e) ==
    IF e = "BootloaderDetected" THEN << "on_bootsel_detected" >>
    ELSE IF e = "Connected" THEN << "on_pico_connected" >>
    ELSE IF e = "Disconnected" THEN << "on_pico_disconnected" >>
    ELSE <<>>

\* the transitions one iteration of the while loop of monitor_usb takes; b is
\* the result of find_bootsel_drive() and listing that of comports(), either
\* may raise, which ends the iteration
PollEvents(b, listing) ==
    IF b = Raise THEN <<>>
    ELSE EventSeq(BootselEdge(b, bootsel_detected)) \o
         (IF listing.raised THEN <<>>
          ELSE EventSeq(SerialEdge(FindPicoPort(listing.ports), pico_connected)))

RECURSIVE AllCallbacks(_)
AllCallbacks(evs) ==
    IF evs = <<>> THEN <<>> ELSE Callbacks(Head(evs)) \o AllCallbacks(Tail(evs))
Has(evs, e) == \E k \in 1..Len(evs) : evs[k] = e

\* one iteration of the while loop of monitor_usb
MonitorPoll(b, listing) ==
    LET evs == PollEvents(b, listing) IN
    /\ bootsel_drive' = IF b = Raise THEN bootsel_drive ELSE b
    /\ bootsel_detected' = BootselFlag(evs, bootsel_detected)
    /\ pico_connected' = IF Has(evs, "Connected") THEN TRUE
                         ELSE IF Has(evs, "Disconnected") THEN FALSE
                         ELSE pico_connected
    /\ current_port' = IF Has(evs, "Connected") THEN FindPicoPort(listing.ports)
                       ELSE IF Has(evs, "Disconnected") THEN None
                       ELSE current_port
    /\ ui_queue' = ui_queue \o AllCallbacks(evs)
    /\ bootsel_found' = IF Has(evs, "BootloaderDetected")
                        THEN Append(bootsel_found, b) ELSE bootsel_found
    /\ UNCHANGED bootsel_passed
    /\ usb_thread' = IF (b = Raise \/ listing.raised) /\ ~MonitorCatches("OSError")
                     THEN "exited" ELSE usb_thread

PollInputsB == BootselDrives \cup { None, Raise }
PollInputsP == { [raised |-> TRUE, ports |-> <<>>] } \cup
               { [raised |-> FALSE, ports |-> l] : l \in PortListings }

\* an iteration of monitor_usb recorded in poll_hist, its enumeration results
\* drawn from Bs and Ps
RecordedPoll(Bs, Ps) ==
    \E b \in Bs, listing \in Ps :
        /\ Len(poll_hist) < MaxPolls
        /\ usb_thread = "running"
        /\ MonitorPoll(b, listing)
        /\ poll_hist' = Append(poll_hist,
              [raised |-> b = Raise \/ listing.raised,
               bootsel |-> b \notin { None, Raise },
               serial |-> ~listing.raised /\ FindPicoPort(listing.ports) # None,
               pre_bootsel |-> bootsel_detected, pre_conn |-> pico_connected,
               events |-> PollEvents(b, listing),
               logged |-> (b = Raise \/ listing.raised) /\ MonitorCatches("OSError")])
        /\ UNCHANGED << watcherVars, raceVars, deviceVars, flashVars, osVars,
                        sync_queue, enq_count, uiVars, workerVars, threadVars >>

\* a poll of SpecMonitor
ScriptedPoll == RecordedPoll(PollInputsB, PollInputsP)

\* ---------------------------------------------------------- configuration
\* {}: the dict load_config returns when there is no file
EmptyConfig == [k \in {} |-> TRUE]
\* self.config.get(key, default)
ConfigGet(cfg, key, default) == IF key \in DOMAIN cfg THEN cfg[key] ELSE default

\* json.dump of one value: a bool is written true/false, a str as a string
JsonEncode_PyBool(key, v) ==
    IF key \in BoolKeys
    THEN [t |-> "bool", lit |-> IF v THEN "True" ELSE "False"]
    ELSE [t |-> "string", chars |-> v]
JsonEncode(key, v) ==
    IF key \in BoolKeys
    THEN [t |-> "bool", lit |-> IF v THEN "true" ELSE "false"]
    ELSE [t |-> "string", chars |-> v]
\* json.load of one value
JsonDecode(tok) == IF tok.t = "bool" THEN tok.lit = "true" ELSE tok.chars
JsonDump(cfg) == [k \in DOMAIN cfg |-> JsonEncode(k, cfg[k])]
JsonLoad(doc) == [k \in DOMAIN doc |-> JsonDecode(doc[k])]

NoConfigFile == [exists |-> FALSE, doc |-> EmptyConfig]
\* load_config()
load_config(file) == IF file.exists THEN JsonLoad(file.doc) ELSE EmptyConfig

\* self.config after the assignments of save_config
SavedConfig(cfg, dir, auto, st) ==
    [k \in DOMAIN cfg \cup ConfigKeys |->
        IF k = "sync_directory" THEN dir
        ELSE IF k = "auto_sync" THEN auto
        ELSE IF k \in DOMAIN st THEN st[k]
        ELSE cfg[k]]
\* save_config() with the Tk variables holding dir, auto and st
save_config(dir, auto, st) ==
    /\ config' = SavedConfig(config, dir, auto, st)
    /\ config_file' = [exists |-> TRUE, doc |-> JsonDump(config')]

\* the variables of the settings tab as create_settings_tab creates them
StartupSettings(cfg) ==
    [k \in DOMAIN DefaultSettings |-> ConfigGet(cfg, k, DefaultSettings[k])]
\* the configuration files an earlier run can have left
ConfigFiles ==
    { NoConfigFile } \cup
    { [exists |-> TRUE, doc |-> JsonDump(SavedConfig(EmptyConfig, d, a, st))] :
         d \in { "", SyncDir }, a \in BOOLEAN, st \in SettingsValues }

\* ------------------------------------------------------- sync dispatcher
\* start_monitoring starts one thread running process_sync_queue
SyncThreads_Two == { "sync_thread", "sync_thread_2" }
SyncThreads == { "sync_thread" }

NoFile == File("", "", "")
DirPath(d) == File(d, "", "")
NoItem == [type |-> "none", data |-> NoFile, seq |-> 0, enq_conn |-> FALSE]
LogEntry(msg, f, n) == [msg |-> msg, file |-> f, total |-> n]
\* os.path.basename(filepath)
Basename(f) == File("", f.stem, f.ext)

\* pc "done" is the return of the item's handler into the loop of
\* process_sync_queue.  History fields: conn (pico_connected when the item was
\* popped), listing (the directory's files when it was enumerated), copied
\* (the copies started), outcomes (how each returned), log (the entries
\* written), end (how processing ended), remote (the files written on the
\* device: remote name and local source)
IdleWorker == [pc |-> "get", item |-> NoItem, conn |-> FALSE, files |-> <<>>, i |-> 0,
               listing |-> {}, copied |-> <<>>, outcomes |-> <<>>, log |-> <<>>,
               end |-> "none", remote |-> <<>>]
\* the target of 'mpremote cp filepath :filename', filename being
\* os.path.basename(filepath)
RemoteName_Relative(f) == f
RemoteName(f) == Basename(f)
RemoteWrite(f) == [name |-> RemoteName(f), src |-> f]

\* Path.glob(pattern) on one name
GlobMatch(pattern, f) ==
    /\ pattern.stem = "*" \/ pattern.stem = f.stem
    /\ pattern.ext = "*" \/ pattern.ext = f.ext

\* the files sync_directory enumerates in a directory holding the regular
\* files listing: os.walk with endswith('.py'), or glob(pattern) at the top
EnumerateFiles(listing, cfg) ==
    IF ConfigGet(cfg, "sync_subdirs", TRUE)
    THEN SelectSeq(FileOrder, LAMBDA f : f \in listing /\ EndsWithPy(f))
    ELSE SelectSeq(FileOrder,
                   LAMBDA f : /\ f \in listing /\ f.dir = ""
                              /\ GlobMatch(ConfigGet(cfg, "file_types",
                                                      DefaultSettings.file_types), f))

\* the connectivity test at the top of sync_single_file and sync_directory
Skips_Never(connected) == FALSE
Skips(connected) == ~connected
\* the log entries of an item that is skipped
DroppedLog_Warn(item) == << LogEntry("Skipped", item.data, 0) >>
DroppedLog(item) == <<>>

\* outcomes of subprocess.run(..., check=True): exit 0, CalledProcessError,
\* or an OSError starting the process
CopyOutcomes == { "ok", "nonzero", "oserror" }

Schedule(cb) == ui_queue' = Append(ui_queue, cb)

\* the clause 'except Exception' of process_sync_queue (queue.Empty has its
\* own clause)
DispatcherCatches_CalledOnly(kind) == kind = "CalledProcessError"
DispatcherCatches(kind) == kind \in ExceptionKinds

\* process_sync_queue: sync_queue.get() returns an item and the item's
\* handler runs up to its first gateway call
Get(t) ==
    /\ worker[t].pc = "get"
    /\ sync_queue # <<>>
    /\ LET item == Head(sync_queue) IN
       /\ sync_queue' = Tail(sync_queue)
       /\ pop_count' = pop_count + 1
       /\ last_popped' = item.seq
       /\ IF Skips(pico_connected)
          THEN worker' = [worker EXCEPT ![t] =
                  [IdleWorker EXCEPT !.pc = "done", !.item = item,
                                     !.conn = pico_connected,
                                     !.log = DroppedLog(item), !.end = "dropped"]]
          ELSE IF item.type = "file"
          THEN worker' = [worker EXCEPT ![t] =
                  [IdleWorker EXCEPT !.pc = "copy_file", !.item = item,
                                     !.conn = pico_connected,
                                     !.copied = << item.data >>]]
          ELSE \E listing \in DirListings :
                  worker' = [worker EXCEPT ![t] =
                     [IdleWorker EXCEPT !.pc = "dir_loop", !.item = item,
                                        !.conn = pico_connected, !.listing = listing,
                                        !.files = EnumerateFiles(listing, config),
                                        !.i = 1]]
    /\ UNCHANGED << watcherVars, closureVars, raceVars, deviceVars, flashVars, osVars,
                    monitorVars, ui_queue, uiVars, enq_count, threadVars >>

\* sync_single_file: the copy returns
CopyFileDone(t) ==
    /\ worker[t].pc = "copy_file"
    /\ \E outcome \in CopyOutcomes :
        LET f == Basename(worker[t].item.data) IN
        IF outcome = "ok"
        THEN /\ Len(ui_queue) < MaxUi
             /\ Schedule("refresh_files")
             /\ worker' = [worker EXCEPT ![t].pc = "done", ![t].end = "synced",
                              ![t].outcomes = << outcome >>,
                              ![t].remote = << RemoteWrite(worker[t].item.data) >>,
                              ![t].log = << LogEntry("Synced", f, 0) >>]
        ELSE IF outcome = "nonzero"
        THEN /\ UNCHANGED ui_queue
             /\ worker' = [worker EXCEPT ![t].pc = "done", ![t].end = "failed",
                              ![t].outcomes = << outcome >>,
                              ![t].log = << LogEntry("Failed to sync", f, 0) >>]
        ELSE \* the OSError leaves sync_single_file
             /\ UNCHANGED ui_queue
             /\ worker' = [worker EXCEPT ![t] =
                  IF DispatcherCatches("OSError")
                  THEN [@ EXCEPT !.pc = "done", !.end = "error",
                                 !.outcomes = << outcome >>,
                                 !.log = << LogEntry("Sync error", NoFile, 0) >>]
                  ELSE [@ EXCEPT !.pc = "exited", !.end = "error",
                                 !.outcomes = << outcome >>]]
    /\ UNCHANGED << watcherVars, closureVars, raceVars, deviceVars, flashVars, osVars,
                    monitorVars, uiVars, sync_queue, enq_count, pop_count, last_popped,
                    threadVars >>

\* the test at the head of the for loop of sync_directory
BreaksBatch_Never(connected) == FALSE
BreaksBatch(connected) == ~connected

\* sync_directory: the head of the for loop, up to the next copy or, when the
\* loop ends, through the completion entry
DirLoop(t) ==
    /\ worker[t].pc = "dir_loop"
    /\ LET w == worker[t]
           total == Len(w.files)
       IN IF w.i <= total /\ ~BreaksBatch(pico_connected)
          THEN /\ worker' = [worker EXCEPT ![t].pc = "dir_copy",
                                ![t].copied = Append(w.copied, w.files[w.i])]
               /\ UNCHANGED ui_queue
          ELSE /\ Len(ui_queue) < MaxUi
               /\ Schedule("refresh_files")
               /\ worker' = [worker EXCEPT ![t].pc = "done",
                                ![t].end = IF w.i <= total THEN "break" ELSE "complete",
                                ![t].log = Append(w.log,
                                     LogEntry("Directory sync complete", NoFile, total))]
    /\ UNCHANGED << watcherVars, closureVars, raceVars, deviceVars, flashVars, osVars,
                    monitorVars, uiVars, sync_queue, enq_count, pop_count, last_popped,
                    threadVars >>

\* the except clauses of sync_directory: the one inside the loop catches
\* CalledProcessError only, any other exception leaves the loop
AbortsBatch_Any(outcome) == outcome # "ok"
AbortsBatch(outcome) == outcome = "oserror"

\* sync_directory: the copy of files[i] returns
DirCopyDone(t) ==
    /\ worker[t].pc = "dir_copy"
    /\ \E outcome \in CopyOutcomes :
        LET w == [worker[t] EXCEPT !.outcomes = Append(@, outcome)]
            f == Basename(w.files[w.i])
        IN worker' = [worker EXCEPT ![t] =
              IF AbortsBatch(outcome)
              THEN [w EXCEPT !.pc = "done", !.end = "error",
                             !.log = Append(w.log,
                                        LogEntry("Directory sync error", NoFile, 0))]
              ELSE IF outcome = "ok"
              THEN [w EXCEPT !.pc = "dir_loop", !.i = w.i + 1,
                             !.remote = Append(w.remote, RemoteWrite(w.files[w.i])),
                             !.log = Append(w.log, LogEntry("Synced", f, 0))]
              ELSE [w EXCEPT !.pc = "dir_loop", !.i = w.i + 1,
                             !.log = Append(w.log, LogEntry("Failed to sync", f, 0))]]
    /\ UNCHANGED << watcherVars, closureVars, raceVars, deviceVars, flashVars, osVars,
                    monitorVars, ui_queue, uiVars, sync_queue, enq_count, pop_count,
                    last_popped, threadVars >>

\* the copy a thread waits for hangs: subprocess.run is called without a
\* timeout, so the call never returns
CopyHangs(t) ==
    /\ worker[t].pc \in { "copy_file", "dir_copy" }
    /\ worker' = [worker EXCEPT ![t].pc = "hung"]
    /\ UNCHANGED << watcherVars, closureVars, raceVars, deviceVars, flashVars, osVars,
                    monitorVars, ui_queue, uiVars, sync_queue, enq_count, pop_count,
                    last_popped, threadVars >>

\* process_sync_queue: back at the top of the while loop
Loop(t) ==
    /\ worker[t].pc = "done"
    /\ worker' = [worker EXCEPT ![t] = IdleWorker]
    /\ UNCHANGED << watcherVars, closureVars, raceVars, deviceVars, flashVars, osVars,
                    monitorVars, ui_queue, uiVars, sync_queue, enq_count, pop_count,
                    last_popped, threadVars >>

\* ------------------------------------------------------- Tk event loop
\* file_observer when it is None or refers to an Observer that is not alive
NoObserver == [alive |-> FALSE, recursive |-> FALSE]
\* the Observer the manager refers to and the number of Observers alive
Watch == [obs |-> file_observer, n |-> observers]
SetWatch(w) == file_observer' = w.obs /\ observers' = w.n

\* stop_file_watching(): stop and join the Observer if it is alive
StopWatching(w) ==
    IF w.obs.alive THEN [obs |-> NoObserver, n |-> w.n - 1] ELSE w
\* start_file_watching(); exists is os.path.exists(dir), setup_ok is false
\* when Observer.start() raises (the Observer is assigned, and not alive)
StartWatching_NoStop(w, dir, exists, setup_ok, cfg) ==
    IF dir = "" \/ ~exists THEN w
    ELSE IF setup_ok
         THEN [obs |-> [alive |-> TRUE,
                        recursive |-> ConfigGet(cfg, "sync_subdirs", TRUE)],
               n |-> w.n + 1]
         ELSE [obs |-> NoObserver, n |-> w.n]
StartWatching(w, dir, exists, setup_ok, cfg) ==
    IF dir = "" \/ ~exists THEN w
    ELSE LET s == StopWatching(w) IN
         IF setup_ok
         THEN [obs |-> [alive |-> TRUE,
                        recursive |-> ConfigGet(cfg, "sync_subdirs", TRUE)],
               n |-> s.n + 1]
         ELSE [obs |-> NoObserver, n |-> s.n]
\* what start_file_watching() lets the user know: the log entry of the watch
\* it started, the exception of Observer.start(), or nothing (the two early
\* returns write no log entry and show no message)
StartWatchingReport(dir, exists, setup_ok) ==
    IF dir = "" \/ ~exists THEN "nothing"
    ELSE IF setup_ok THEN "Started watching" ELSE "raised"
\* start_file_watching() leaves through an exception
WatchSetupRaises(dir, exists, setup_ok) == dir # "" /\ exists /\ ~setup_ok

\* sync_all_files()
sync_all_files(dir) ==
    IF dir = "" THEN UNCHANGED << sync_queue, enq_count >>
    ELSE /\ enq_count < MaxEnq
         /\ SyncQueuePut("full", DirPath(dir))

\* refresh_files(): refresh_pico_files clears the list and starts a do_refresh
\* thread
refresh_files ==
    IF pico_connected
    THEN /\ ls_threads < MaxLs
         /\ ls_threads' = ls_threads + 1
         /\ pico_tree' = "empty"
    ELSE UNCHANGED << ls_threads, pico_tree >>

\* what on_pico_disconnected does to the watch and to the device file list
DisconnectedWatch_Keep(w) == w
DisconnectedWatch(w) == StopWatching(w)

\* the argument of on_bootsel_detected in 'lambda: self.on_bootsel_detected(
\* bootsel_drive)': the lambda closes over the variable of monitor_usb, not
\* over the value it had when the lambda was made
LambdaArgument(found, current) == current

\* the event loop runs the next scheduled callback; on_pico_connected runs up
\* to the gateway call of detect_pico_model
RunCallback ==
    /\ ui_pc = "idle"
    /\ ui_queue # <<>>
    /\ ui_queue' = Tail(ui_queue)
    /\ LET cb == Head(ui_queue) IN
       IF cb = "on_pico_connected"
       THEN /\ buttons_enabled' = TRUE
            /\ ui_pc' = "detect"
            /\ UNCHANGED << file_observer, observers, ls_threads, pico_tree,
                            closureVars >>
       ELSE IF cb = "on_pico_disconnected"
       THEN /\ buttons_enabled' = FALSE
            /\ SetWatch(DisconnectedWatch(Watch))
            /\ pico_tree' = "empty"
            /\ UNCHANGED << ui_pc, ls_threads, closureVars >>
       ELSE IF cb = "refresh_files"
       THEN /\ refresh_files
            /\ UNCHANGED << ui_pc, buttons_enabled, file_observer, observers,
                            closureVars >>
       ELSE IF cb = "pico_tree_insert"
       THEN /\ pico_tree' = "listed"
            /\ UNCHANGED << ui_pc, buttons_enabled, file_observer, observers,
                            ls_threads, closureVars >>
       ELSE IF cb = "on_bootsel_detected"
       THEN \* the lambda of line 514 reads bootsel_drive when it is called
            /\ bootsel_found' = Tail(bootsel_found)
            /\ bootsel_passed' = Append(bootsel_passed,
                    [found |-> Head(bootsel_found),
                     passed |-> LambdaArgument(Head(bootsel_found), bootsel_drive)])
            /\ UNCHANGED << ui_pc, buttons_enabled, file_observer, observers,
                            ls_threads, pico_tree >>
       ELSE \* the BOOTSEL prompt of download_and_flash
            UNCHANGED << ui_pc, buttons_enabled, file_observer, observers, ls_threads,
                         pico_tree, closureVars >>
    /\ UNCHANGED << watcherVars, raceVars, deviceVars, flashVars, osVars, monitorVars,
                    dir_var, auto_sync_enabled, settings, config, sync_queue,
                    enq_count, workerVars, wipe_threads >>

\* the ways the call of detect_pico_model ends: stdout names the chip, stdout
\* names something else (sys.implementation.name is "micropython"), mpremote
\* exits non-zero with nothing on stdout, or the call times out and raises
DetectResults == { "rp2040", "rp2350", "other", "nonzero", "timeout" }
DetectFailures == { "nonzero", "timeout" }
\* self.pico_model after detect_pico_model
ModelAfter(model, result) ==
    IF result = "rp2040" THEN "RP2040"
    ELSE IF result = "rp2350" THEN "RP2350"
    ELSE model

\* another device is attached, or the attached one answers differently
DeviceChanges ==
    /\ \E r \in DetectResults \ { detect_result } : detect_result' = r
    /\ UNCHANGED << watcherVars, closureVars, raceVars, flashVars, pico_model, osVars,
                    monitorVars, ui_queue, uiVars, sync_queue, enq_count, workerVars,
                    threadVars >>

\* whether on_pico_connected starts the watch and the initial sync
AutoStarts_DirOnly(auto, dir) == dir # ""
AutoStarts(auto, dir) == auto /\ dir # ""

\* on_pico_connected: detect_pico_model's gateway call returns and the rest
\* of the handler runs
DetectDone ==
    /\ ui_pc = "detect"
    /\ ui_pc' = "idle"
    /\ pico_model' = ModelAfter(pico_model, detect_result)
    /\ IF AutoStarts(auto_sync_enabled, dir_var)
       THEN /\ SetWatch(StartWatching(Watch, dir_var, dir_exists, watch_ok, config))
            /\ IF WatchSetupRaises(dir_var, dir_exists, watch_ok)
               THEN UNCHANGED << sync_queue, enq_count, ls_threads, pico_tree >>
               ELSE sync_all_files(dir_var) /\ refresh_files
       ELSE /\ UNCHANGED << file_observer, observers, sync_queue, enq_count >>
            /\ refresh_files
    /\ UNCHANGED << watcherVars, closureVars, raceVars, detect_result, flashVars,
                    osVars, monitorVars, ui_queue, dir_var, auto_sync_enabled,
                    settings, config, buttons_enabled, workerVars, wipe_threads >>

\* sync_queue after stop_file_watching(): the Observer is stopped and joined,
\* the queue is not touched
QueueAfterStop_Cleared(q) == <<>>
QueueAfterStop(q) == q

\* toggle_auto_sync(), after the check button flipped the variable
ToggleAutoSync ==
    /\ ui_pc = "idle"
    /\ auto_sync_enabled' = ~auto_sync_enabled
    /\ IF auto_sync_enabled'
       THEN IF pico_connected /\ dir_var # ""
            THEN /\ SetWatch(StartWatching(Watch, dir_var, dir_exists, watch_ok, config))
                 /\ IF WatchSetupRaises(dir_var, dir_exists, watch_ok)
                    THEN UNCHANGED << sync_queue, enq_count, config, config_file >>
                    ELSE /\ sync_all_files(dir_var)
                         /\ save_config(dir_var, auto_sync_enabled', settings)
            ELSE /\ UNCHANGED << file_observer, observers, sync_queue, enq_count >>
                 /\ save_config(dir_var, auto_sync_enabled', settings)
       ELSE /\ SetWatch(StopWatching(Watch))
            /\ sync_queue' = QueueAfterStop(sync_queue)
            /\ UNCHANGED enq_count
            /\ save_config(dir_var, auto_sync_enabled', settings)
    /\ UNCHANGED << watcherVars, closureVars, raceVars, deviceVars, flashVars,
                    monitorVars, ui_queue, ui_pc, dir_var, settings, buttons_enabled,
                    pico_tree, dir_exists, watch_ok, workerVars, threadVars >>

\* the test 'self.pico_connected and self.auto_sync_enabled.get()' under which
\* select_directory and save_settings restart the watch
RestartsWatch_Always(connected, auto) == TRUE
RestartsWatch(connected, auto) == connected /\ auto

\* select_directory(), the dialog returning a directory
SelectDirectory ==
    /\ ui_pc = "idle"
    /\ dir_var' = SyncDir
    /\ save_config(dir_var', auto_sync_enabled, settings)
    /\ IF RestartsWatch(pico_connected, auto_sync_enabled)
       THEN /\ SetWatch(StartWatching(StopWatching(Watch), dir_var', dir_exists,
                                      watch_ok, config'))
            /\ IF WatchSetupRaises(dir_var', dir_exists, watch_ok)
               THEN UNCHANGED << sync_queue, enq_count >>
               ELSE sync_all_files(dir_var')
       ELSE UNCHANGED << file_observer, observers, sync_queue, enq_count >>
    /\ UNCHANGED << watcherVars, closureVars, raceVars, deviceVars, flashVars,
                    monitorVars, ui_queue, ui_pc, auto_sync_enabled, settings,
                    buttons_enabled, pico_tree, dir_exists, watch_ok, workerVars,
                    threadVars >>

\* the user edits field k of the settings tab
EditSetting(k) ==
    /\ ui_pc = "idle"
    /\ \E st \in SettingsValues :
          /\ st[k] # settings[k]
          /\ \A j \in DOMAIN DefaultSettings \ { k } : st[j] = settings[j]
          /\ settings' = st
    /\ UNCHANGED << watcherVars, closureVars, raceVars, deviceVars, flashVars, osVars,
                    monitorVars, ui_queue, ui_pc, dir_var, auto_sync_enabled, config,
                    file_observer, observers, buttons_enabled, pico_tree, sync_queue,
                    enq_count, workerVars, threadVars >>

\* save_settings(), the Save Settings button
SaveSettings ==
    /\ ui_pc = "idle"
    /\ save_config(dir_var, auto_sync_enabled, settings)
    /\ IF RestartsWatch(pico_connected, auto_sync_enabled)
       THEN SetWatch(StartWatching(StopWatching(Watch), dir_var, dir_exists,
                                   watch_ok, config'))
       ELSE UNCHANGED << file_observer, observers >>
    /\ UNCHANGED << watcherVars, closureVars, raceVars, deviceVars, flashVars,
                    monitorVars, ui_queue, ui_pc, dir_var, auto_sync_enabled, settings,
                    buttons_enabled, pico_tree, dir_exists, watch_ok, sync_queue,
                    enq_count, workerVars, threadVars >>

\* on_closing(): the window is closed; the process ends with the main loop
OnClosing ==
    /\ ui_pc = "idle"
    /\ ui_pc' = "closed"
    /\ SetWatch(StopWatching(Watch))
    /\ save_config(dir_var, auto_sync_enabled, settings)
    /\ UNCHANGED << watcherVars, closureVars, raceVars, deviceVars, flashVars,
                    monitorVars, ui_queue, dir_var, auto_sync_enabled, settings,
                    buttons_enabled, pico_tree, dir_exists, watch_ok, sync_queue,
                    enq_count, workerVars, threadVars >>

\* the next start of the program: __init__ and create_ui
Startup ==
    /\ ui_pc = "closed"
    /\ ui_pc' = "idle"
    /\ config' = load_config(config_file)
    /\ dir_var' = ConfigGet(config', "sync_directory", "")
    /\ auto_sync_enabled' = ConfigGet(config', "auto_sync", TRUE)
    /\ settings' = StartupSettings(config')
    /\ bootsel_detected' = FALSE /\ bootsel_drive' = None
    /\ pico_connected' = FALSE /\ current_port' = None
    /\ usb_thread' = "running"
    /\ ui_queue' = <<>>
    /\ file_observer' = NoObserver /\ observers' = 0
    /\ buttons_enabled' = FALSE /\ pico_tree' = "empty"
    /\ sync_queue' = <<>> /\ enq_count' = 0 /\ pop_count' = 0 /\ last_popped' = 0
    /\ worker' = [t \in SyncThreads |-> IdleWorker]
    /\ ls_threads' = 0 /\ wipe_threads' = 0 /\ flash_pc' = "none"
    /\ pico_model' = None
    /\ bootsel_found' = <<>>
    /\ UNCHANGED << watcherVars, bootsel_passed, raceVars, detect_result,
                    direct_writes, osVars, poll_hist >>

\* manual_sync(), the Sync Now button
ManualSync ==
    /\ ui_pc = "idle"
    /\ buttons_enabled
    /\ sync_all_files(dir_var)
    /\ UNCHANGED << watcherVars, closureVars, raceVars, deviceVars, flashVars, osVars,
                    monitorVars, ui_queue, uiVars, workerVars, threadVars >>

\* upload_selected() with one file of the local tree selected
UploadSelected ==
    /\ ui_pc = "idle"
    /\ dir_var # ""
    /\ enq_count < MaxEnq
    /\ \E f \in { g \in UploadFiles : g.dir = "" /\ EndsWithPy(g) } : SyncQueuePut("file", f)
    /\ UNCHANGED << watcherVars, closureVars, raceVars, deviceVars, flashVars, osVars,
                    monitorVars, ui_queue, uiVars, workerVars, threadVars >>

\* wipe_pico(), confirmed: starts a do_wipe thread
WipePico ==
    /\ ui_pc = "idle"
    /\ buttons_enabled
    /\ wipe_threads < MaxWipe
    /\ wipe_threads' = wipe_threads + 1
    /\ UNCHANGED << watcherVars, closureVars, raceVars, deviceVars, flashVars, osVars,
                    monitorVars, ui_queue, uiVars, sync_queue, enq_count, workerVars,
                    ls_threads >>

\* do_wipe: the gateway call returns
WipeDone ==
    /\ wipe_threads > 0
    /\ wipe_threads' = wipe_threads - 1
    /\ \E ok \in BOOLEAN :
          IF ok THEN Len(ui_queue) < MaxUi /\ Schedule("refresh_files")
          ELSE UNCHANGED ui_queue
    /\ UNCHANGED << watcherVars, closureVars, raceVars, deviceVars, flashVars, osVars,
                    monitorVars, uiVars, sync_queue, enq_count, workerVars,
                    ls_threads >>

\* do_refresh: the gateway call returns without a line to show (it failed, or
\* the device holds no file)
LsDone ==
    /\ ls_threads > 0
    /\ ls_threads' = ls_threads - 1
    /\ UNCHANGED << watcherVars, closureVars, raceVars, deviceVars, flashVars, osVars,
                    monitorVars, ui_queue, uiVars, sync_queue, enq_count, workerVars,
                    wipe_threads >>

\* do_refresh: the gateway call returns a listing and an insert is scheduled
LsListed ==
    /\ ls_threads > 0
    /\ ls_threads' = ls_threads - 1
    /\ Len(ui_queue) < MaxUi
    /\ Schedule("pico_tree_insert")
    /\ UNCHANGED << watcherVars, closureVars, raceVars, deviceVars, flashVars, osVars,
                    monitorVars, uiVars, sync_queue, enq_count, workerVars,
                    wipe_threads >>

\* a widget call made by a thread that is not the Tk thread
DirectWrite(thread, widget) == [thread |-> thread, widget |-> widget]
WritesBy(thread, widgets) == { DirectWrite(thread, w) : w \in widgets }

\* flash_firmware(), the Flash button of the dialog: do_flash starts a thread
\* running download_and_flash (one such thread at a time)
FlashFirmware ==
    /\ ui_pc = "idle"
    /\ buttons_enabled
    /\ flash_pc = "none"
    /\ flash_pc' = "download"
    /\ UNCHANGED << watcherVars, closureVars, raceVars, deviceVars, osVars,
                    monitorVars, ui_queue, uiVars, sync_queue, enq_count, workerVars,
                    threadVars, direct_writes >>

\* download_and_flash: from its first statement to the return of urlretrieve;
\* after a download the BOOTSEL prompt is scheduled, after an exception the
\* error box is shown and the finally clause runs
DownloadDone ==
    /\ flash_pc = "download"
    /\ \E ok \in BOOLEAN :
          IF ok
          THEN /\ Len(ui_queue) < MaxUi
               /\ Schedule("showinfo")
               /\ flash_pc' = "wait"
               /\ direct_writes' = direct_writes \cup
                     WritesBy("flash_thread", { "operation_label", "progress_bar" })
          ELSE /\ UNCHANGED ui_queue
               /\ flash_pc' = "none"
               /\ direct_writes' = direct_writes \cup
                     WritesBy("flash_thread",
                              { "operation_label", "progress_bar", "messagebox" })
    /\ UNCHANGED << watcherVars, closureVars, raceVars, deviceVars, osVars,
                    monitorVars, uiVars, sync_queue, enq_count, workerVars,
                    threadVars >>

\* download_and_flash: wait_for_bootsel returns a drive or None; the firmware
\* is copied or not, a message box is shown and the finally clause runs
WaitForBootselDone ==
    /\ flash_pc = "wait"
    /\ flash_pc' = "none"
    /\ direct_writes' = direct_writes \cup
          WritesBy("flash_thread", { "operation_label", "progress_bar", "messagebox" })
    /\ UNCHANGED << watcherVars, closureVars, raceVars, deviceVars, osVars,
                    monitorVars, ui_queue, uiVars, sync_queue, enq_count, workerVars,
                    threadVars >>

\* the observer thread calls back for a change the watcher accepted
FileChanged ==
    /\ file_observer.alive
    /\ enq_count < MaxEnq
    /\ \E f \in { g \in ChangedFiles : g.dir = "" \/ file_observer.recursive } :
          on_file_changed(f)
    /\ UNCHANGED << watcherVars, closureVars, raceVars, deviceVars, flashVars, osVars,
                    monitorVars, ui_queue, uiVars, workerVars, threadVars >>

\* the sync directory is removed or created again, or the OS runs out of
\* watches or has some again
OsChanges ==
    /\ \/ dir_exists' = ~dir_exists /\ UNCHANGED watch_ok
       \/ watch_ok' = ~watch_ok /\ UNCHANGED dir_exists
    /\ UNCHANGED << watcherVars, closureVars, raceVars, deviceVars, flashVars,
                    monitorVars, ui_queue, uiVars, config_file, sync_queue, enq_count,
                    workerVars, threadVars >>

\* the enumeration results drawn while the manager runs: no sentinel or a
\* failing mount scan; no port, a Pico port behind another port, or a failing
\* port scan
ManagerInputsB == { None, Raise }
ManagerInputsP == { i \in PollInputsP : Len(i.ports) # 1 }

\* an iteration of monitor_usb in the running manager, recorded
LoggedPoll == RecordedPoll(ManagerInputsB, ManagerInputsP)

\* an iteration of monitor_usb in the running manager
Poll ==
    /\ usb_thread = "running"
    /\ \E b \in ManagerInputsB, listing \in ManagerInputsP :
          /\ MonitorPoll(b, listing)
          /\ Len(ui_queue') <= MaxUi
    /\ UNCHANGED << watcherVars, raceVars, deviceVars, flashVars, osVars, poll_hist,
                    uiVars, sync_queue, enq_count, workerVars, threadVars >>

\* an iteration of monitor_usb with the device attached
ConnectPoll ==
    /\ usb_thread = "running"
    /\ \E listing \in { i \in ManagerInputsP : ~i.raised /\ FindPicoPort(i.ports) # None } :
          /\ MonitorPoll(None, listing)
          /\ Len(ui_queue') <= MaxUi
    /\ UNCHANGED << watcherVars, raceVars, deviceVars, flashVars, osVars, poll_hist,
                    uiVars, sync_queue, enq_count, workerVars, threadVars >>

\* gateway (mpremote) processes running
GatewayCalls ==
    Cardinality({ t \in SyncThreads : worker[t].pc \in { "copy_file", "dir_copy" } })
    + (IF ui_pc = "detect" THEN 1 ELSE 0)
    + ls_threads + wipe_threads

\* ------------------------------------------------------------------ Init
Init ==
    /\ now = 0
    /\ last_modified = [p \in WatchPaths |-> NoTime]
    /\ ev_hist = <<>>
    /\ created_sleep = NoSleep
    /\ bootsel_detected = FALSE
    /\ bootsel_drive = None
    /\ pico_connected = FALSE
    /\ current_port = None
    /\ usb_thread = "running"
    /\ poll_hist = <<>>
    /\ ui_queue = <<>>
    /\ ui_pc = "idle"
    /\ config_file \in ConfigFiles
    /\ dir_exists \in BOOLEAN
    /\ watch_ok \in BOOLEAN
    /\ config = load_config(config_file)
    /\ dir_var = ConfigGet(config, "sync_directory", "")
    /\ auto_sync_enabled = ConfigGet(config, "auto_sync", TRUE)
    /\ settings = StartupSettings(config)
    /\ file_observer = NoObserver
    /\ observers = 0
    /\ buttons_enabled = FALSE
    /\ pico_tree = "empty"
    /\ sync_queue = <<>>
    /\ enq_count = 0
    /\ pop_count = 0
    /\ last_popped = 0
    /\ worker = [t \in SyncThreads |-> IdleWorker]
    /\ ls_threads = 0
    /\ wipe_threads = 0
    /\ flash_pc = "none"
    /\ direct_writes = {}
    /\ pico_model = None
    /\ detect_result \in DetectResults
    /\ delivery = [d \in DeliveryThreads |-> IdleDelivery]
    /\ bootsel_found = <<>>
    /\ bootsel_passed = <<>>

\* the first start: no configuration file (the watcher and the monitor do
\* not read the configuration)
InitDefault ==
    /\ Init
    /\ config_file = NoConfigFile
    /\ dir_exists /\ watch_ok /\ detect_result = "other"

NextWatcher == Modified \/ Tick
SpecWatcher == InitDefault /\ [][NextWatcher]_vars

\* the watcher with files being created as well as modified
NextCreated == ModifiedOn(ModifiedAlong) \/ Created \/ CreatedEmit \/ Tick
SpecCreated == InitDefault /\ [][NextCreated]_vars

\* 'modified' events delivered by two threads at once
NextRace ==
    \/ \E d \in DeliveryThreads : ModifiedCheck(d)
    \/ \E d \in DeliveryThreads : ModifiedCommit(d)
    \/ Tick
SpecRace == InitDefault /\ [][NextRace]_vars

NextMonitor == ScriptedPoll
SpecMonitor == InitDefault /\ [][NextMonitor]_vars

Dispatch ==
    \E t \in SyncThreads :
        Get(t) \/ CopyFileDone(t) \/ DirLoop(t) \/ DirCopyDone(t) \/ Loop(t)
\* the manager started from a saved configuration with the default settings,
\* the sync directory being there
InitManager ==
    /\ Init
    /\ config_file.exists /\ settings = DefaultSettings
    /\ dir_exists /\ watch_ok /\ detect_result = "other"
Next ==
    \/ Poll
    \/ RunCallback
    \/ DetectDone
    \/ ToggleAutoSync
    \/ SelectDirectory
    \/ ManualSync
    \/ UploadSelected
    \/ LsDone
    \/ FileChanged
    \/ Dispatch
Spec == InitManager /\ [][Next]_vars

\* full syncs under every configuration, with a sync directory set and auto
\* sync on: the device comes and goes and the user presses Sync Now
InitBatch ==
    /\ Init
    /\ config_file.exists
    /\ dir_var = SyncDir /\ auto_sync_enabled
    /\ settings.auto_flash = DefaultSettings.auto_flash
    /\ settings.show_notifications = DefaultSettings.show_notifications
    /\ settings.log_level = DefaultSettings.log_level
    /\ dir_exists /\ watch_ok /\ detect_result = "other"
DispatchFull ==
    \E t \in SyncThreads : Get(t) \/ DirLoop(t) \/ DirCopyDone(t) \/ Loop(t)
NextBatch ==
    \/ Poll
    \/ RunCallback
    \/ DetectDone
    \/ ManualSync
    \/ LsDone
    \/ DispatchFull
SpecBatch == InitBatch /\ [][NextBatch]_vars

\* every user of the gateway: syncs, list refreshes, model detection, wipes
NextGateway ==
    \/ Poll
    \/ RunCallback
    \/ DetectDone
    \/ ManualSync
    \/ LsDone
    \/ WipePico
    \/ WipeDone
    \/ DispatchFull
SpecGateway == InitManager /\ [][NextGateway]_vars

\* the configuration over the runs of the program: the user edits settings,
\* toggles auto sync, selects a directory, saves, closes and starts again
NextConfig ==
    \/ \E k \in DOMAIN DefaultSettings : EditSetting(k)
    \/ ToggleAutoSync
    \/ SelectDirectory
    \/ SaveSettings
    \/ OnClosing
    \/ Startup
SpecConfig == InitDefault /\ [][NextConfig]_vars

\* the two background loops and the errors they meet: recorded polls, the
\* Tk event loop, uploads and the dispatcher, auto sync being off
InitLoops == InitManager /\ dir_var = SyncDir /\ ~auto_sync_enabled
\* the dispatcher on single-file items, the only ones queued with auto sync off
\* and no Sync Now
DispatchFile ==
    \E t \in SyncThreads : Get(t) \/ CopyFileDone(t) \/ Loop(t)
NextLoops ==
    \/ LoggedPoll
    \/ RunCallback
    \/ DetectDone
    \/ UploadSelected
    \/ LsDone
    \/ DispatchFile
SpecLoops == InitLoops /\ [][NextLoops]_vars

\* the dispatcher under fair scheduling: the Tk event loop runs its callbacks,
\* every helper thread and every gateway call the dispatcher waits for
\* returns, and root.after never blocks the dispatcher thread for good
NextFair ==
    \/ Poll
    \/ RunCallback
    \/ DetectDone
    \/ ManualSync
    \/ UploadSelected
    \/ LsDone
    \/ Dispatch
Fairness ==
    /\ WF_vars(RunCallback)
    /\ WF_vars(DetectDone)
    /\ WF_vars(LsDone)
    /\ \A t \in SyncThreads :
          SF_vars(Get(t) \/ CopyFileDone(t) \/ DirLoop(t) \/ DirCopyDone(t) \/ Loop(t))
SpecFair == InitLoops /\ [][NextFair]_vars /\ Fairness

\* the same, a copy being free to hang
NextHang == NextFair \/ \E t \in SyncThreads : CopyHangs(t)
SpecHang == InitLoops /\ [][NextHang]_vars /\ Fairness

\* the board variant over connections: devices that identify themselves or
\* fail to come and go
InitVariant ==
    /\ Init
    /\ config_file.exists /\ settings = DefaultSettings
    /\ dir_exists /\ watch_ok
NextVariant ==
    \/ Poll
    \/ RunCallback
    \/ DetectDone
    \/ DeviceChanges
    \/ LsDone
SpecVariant == InitVariant /\ [][NextVariant]_vars

\* the bootloader signal and its handler: boards in bootloader mode come and
\* go at two mount points while the Tk thread runs the callbacks when it can
BootselInputsP == { [raised |-> FALSE, ports |-> <<>>] }
BootselPoll == RecordedPoll(BootselMounts \cup { None }, BootselInputsP)
NextBootsel == BootselPoll \/ RunCallback
SpecBootsel == InitManager /\ [][NextBootsel]_vars

\* the firmware flash started from the dialog, the device coming and going
NextFlash ==
    \/ Poll
    \/ RunCallback
    \/ DetectDone
    \/ LsDone
    \/ FlashFirmware
    \/ DownloadDone
    \/ WaitForBootselDone
SpecFlash == InitManager /\ [][NextFlash]_vars

\* auto sync switched on and off while the watcher reports changes and the
\* dispatcher works, under the fair scheduling of SpecFair; the device is
\* attached and stays
NextAutoOff ==
    \/ ConnectPoll
    \/ RunCallback
    \/ DetectDone
    \/ ToggleAutoSync
    \/ FileChanged
    \/ LsDone
    \/ Dispatch
SpecAutoOff == InitLoops /\ [][NextAutoOff]_vars /\ Fairness

\* the handlers of the Tk thread and the watch: the device comes and goes,
\* the user toggles auto sync, selects a directory, switches recursion and
\* saves the settings, the directory and the OS watches come and go, the
\* device list is refreshed; the work items stay queued
InitSession ==
    Init /\ config_file.exists /\ settings = DefaultSettings /\ detect_result = "other"
NextSession ==
    \/ Poll
    \/ RunCallback
    \/ DetectDone
    \/ ToggleAutoSync
    \/ SelectDirectory
    \/ EditSetting("sync_subdirs")
    \/ SaveSettings
    \/ OsChanges
    \/ LsDone
    \/ LsListed
SpecSession == InitSession /\ [][NextSession]_vars

\* ================================================================ claims
\* ---------------------------------------------------------------- C1
EventsOn(p) == { i \in 1..Len(ev_hist) : ev_hist[i].path = p /\ ~ev_hist[i].is_dir }
MatchingPaths == { p \in WatchPaths : EndsWithPy(p) }
MinOf(S) == CHOOSE x \in S : \A y \in S : x <= y
MaxOf(S) == CHOOSE x \in S : \A y \in S : x >= y
AcceptedWithinWindowOfFirst(p) ==
    LET E == EventsOn(p)
        first == MinOf(E)
    IN { i \in E : ev_hist[i].t - ev_hist[first].t < Window /\ ev_hist[i].accepted }

\* C1 as stated, for 'modified' events on a file matching '.py': the events
\* within one debounce window of the first emit exactly one change event, and
\* any two events more than a window apart each emit a change event.
C1_Original ==
    \A p \in MatchingPaths :
        LET E == EventsOn(p) IN
        /\ E # {} => Cardinality(AcceptedWithinWindowOfFirst(p)) = 1
        /\ \A i, j \in E : ev_hist[j].t - ev_hist[i].t > Window
                             => ev_hist[i].accepted /\ ev_hist[j].accepted

\* C1 (amended): on a non-directory path ending in '.py', the events within one
\* debounce window of the first emit exactly one change event (the first); an
\* event emits a change event exactly when no change event for its path was
\* emitted less than one window before it, hence every event that comes more
\* than a window after the preceding event on its path emits one; directory
\* events and events on other paths emit none.
C1_Debounce ==
    /\ \A p \in MatchingPaths :
        LET E == EventsOn(p) IN
        /\ E # {} => AcceptedWithinWindowOfFirst(p) = { MinOf(E) }
        /\ \A j \in E :
              ev_hist[j].accepted <=>
                 ~\E i \in E : i < j /\ ev_hist[i].accepted
                                /\ ev_hist[j].t - ev_hist[i].t < Window
        /\ \A j \in E :
              LET before == { i \in E : i < j } IN
              (before # {} /\ ev_hist[j].t - ev_hist[MaxOf(before)].t > Window)
                 => ev_hist[j].accepted
    /\ \A i \in 1..Len(ev_hist) :
          (ev_hist[i].is_dir \/ ~EndsWithPy(ev_hist[i].path)) => ~ev_hist[i].accepted

\* a '.py' file with an accepted event, a discarded one inside the window and
\* an accepted one more than a window after the discarded one
C1_Witness ==
    \E p \in MatchingPaths : \E i, j, k \in EventsOn(p) :
        /\ i < j /\ j < k
        /\ ev_hist[i].accepted /\ ~ev_hist[j].accepted /\ ev_hist[k].accepted
        /\ ev_hist[k].t - ev_hist[j].t > Window

\* ---------------------------------------------------------------- C5
NoDevice == [bootsel |-> FALSE, serial |-> FALSE]
PrevResult(i) == IF i = 1 THEN NoDevice
                 ELSE [bootsel |-> poll_hist[i-1].bootsel, serial |-> poll_hist[i-1].serial]
SignalChanges(prev, cur) ==
    (IF cur.bootsel /\ ~prev.bootsel THEN << "BootloaderDetected" >>
     ELSE IF ~cur.bootsel /\ prev.bootsel THEN << "BootloaderLost" >> ELSE <<>>)
    \o
    (IF cur.serial /\ ~prev.serial THEN << "Connected" >>
     ELSE IF ~cur.serial /\ prev.serial THEN << "Disconnected" >> ELSE <<>>)
IsResult(h, b, s) == ~h.raised /\ h.bootsel = b /\ h.serial = s

\* C5: a poll that follows a poll with a given enumeration result (or is the
\* first) takes exactly one transition per signal that changed between the two
\* results and none otherwise, so none when the results are equal; the script
\* [no device], [sentinel], [no device], [serial port] gives BootloaderDetected,
\* BootloaderLost, Connected in that order.
C5_Transitions ==
    /\ \A i \in 1..Len(poll_hist) :
          (~poll_hist[i].raised /\ (i = 1 \/ ~poll_hist[i-1].raised))
             => poll_hist[i].events = SignalChanges(PrevResult(i), poll_hist[i])
    /\ \A i \in 1..Len(poll_hist) :
          (/\ i + 3 <= Len(poll_hist)
           /\ IsResult(poll_hist[i], FALSE, FALSE)
           /\ IsResult(poll_hist[i+1], TRUE, FALSE)
           /\ IsResult(poll_hist[i+2], FALSE, FALSE)
           /\ IsResult(poll_hist[i+3], FALSE, TRUE))
             => /\ poll_hist[i+1].events = << "BootloaderDetected" >>
                /\ poll_hist[i+2].events = << "BootloaderLost" >>
                /\ poll_hist[i+3].events = << "Connected" >>

\* the scripted run has been polled, from the start
C5_Witness ==
    /\ Len(poll_hist) >= 4
    /\ IsResult(poll_hist[1], FALSE, FALSE) /\ poll_hist[1].events = <<>>
    /\ IsResult(poll_hist[2], TRUE, FALSE)
    /\ IsResult(poll_hist[3], FALSE, FALSE)
    /\ IsResult(poll_hist[4], FALSE, TRUE)
    /\ poll_hist[4].events = << "Connected" >>

\* ---------------------------------------------------------------- C6
\* C6 as stated: no poll takes more than one transition.
C6_Original == \A i \in 1..Len(poll_hist) : Len(poll_hist[i].events) <= 1

BootselEvents == { "BootloaderDetected", "BootloaderLost" }
SerialEvents == { "Connected", "Disconnected" }
CountIn(evs, S) == Cardinality({ k \in 1..Len(evs) : evs[k] \in S })

\* C6 (amended): a poll takes at most one bootloader transition and at most one
\* serial transition, the bootloader one first, so at most two; it takes two
\* exactly when no enumeration raised and both signals differ from their
\* recorded values.
C6_PerSignal ==
    \A i \in 1..Len(poll_hist) :
        LET h == poll_hist[i] IN
        /\ CountIn(h.events, BootselEvents) <= 1
        /\ CountIn(h.events, SerialEvents) <= 1
        /\ Len(h.events) = CountIn(h.events, BootselEvents) + CountIn(h.events, SerialEvents)
        /\ Len(h.events) = 2 => h.events[1] \in BootselEvents
        /\ Len(h.events) = 2 <=>
              (~h.raised /\ h.bootsel # h.pre_bootsel /\ h.serial # h.pre_conn)

\* a poll in which the sentinel disappeared and the serial port appeared
C6_Witness ==
    \E i \in 1..Len(poll_hist) : poll_hist[i].events = << "BootloaderLost", "Connected" >>

\* ---------------------------------------------------------------- C2
\* C2: the k-th item get() returns is the k-th item that was put, and the
\* queue holds the items not yet returned in the order they were put.
C2_Fifo ==
    /\ last_popped = pop_count
    /\ \A k \in 1..Len(sync_queue) : sync_queue[k].seq = pop_count + k

Executing(t) == worker[t].pc \in { "copy_file", "dir_loop", "dir_copy" }

\* the first item put is being executed while an item of the other kind,
\* put after it, waits
C2_Witness ==
    \E t \in SyncThreads :
        /\ Executing(t) /\ worker[t].item.seq = 1 /\ pop_count = 1
        /\ sync_queue # <<>>
        /\ Head(sync_queue).seq = 2
        /\ Head(sync_queue).type # worker[t].item.type

\* ---------------------------------------------------------------- C3
\* C3: at most one work item is being executed.
C3_OneInFlight == Cardinality({ t \in SyncThreads : Executing(t) }) <= 1

\* a copy of a directory sync is running while another item waits
C3_Witness ==
    \E t \in SyncThreads : worker[t].pc = "dir_copy" /\ sync_queue # <<>>

\* ---------------------------------------------------------------- C4
\* C4 as stated: at most one gateway process runs at any time.
C4_Original == GatewayCalls <= 1

\* ---------------------------------------------------------------- C7
\* the files of the directory that match the configured pattern, in the whole
\* tree when sync_subdirs is set and at the top otherwise
MatchingFiles(listing, cfg) ==
    SelectSeq(FileOrder, LAMBDA f : /\ f \in listing
                                    /\ GlobMatch(cfg["file_types"], f)
                                    /\ cfg["sync_subdirs"] \/ f.dir = "")
FullDone(t) == worker[t].pc = "done" /\ worker[t].item.type = "full"

\* C7 as stated: a directory sync that ran to its end made exactly one copy
\* for each file matching the configured pattern, with sync_subdirs on or off.
C7_Original ==
    \A t \in SyncThreads :
        (FullDone(t) /\ worker[t].end = "complete")
           => worker[t].copied = MatchingFiles(worker[t].listing, config)

\* ---------------------------------------------------------------- C8
IsPerFileEntry(e, f) ==
    e.msg \in { "Synced", "Failed to sync" } /\ e.file = Basename(f)
CompleteEntry(n) == LogEntry("Directory sync complete", NoFile, n)
AllAttempted(w) ==
    /\ w.copied = w.files
    /\ Len(w.log) = Len(w.files) + 1
    /\ \A k \in 1..Len(w.files) : IsPerFileEntry(w.log[k], w.files[k])
    /\ w.log[Len(w.log)] = CompleteEntry(Len(w.files))

\* C8 as stated: whatever way copies fail, a directory sync that is not cut
\* short by a disconnect attempts and logs every enumerated file and logs the
\* number of enumerated files at the end.
C8_Original ==
    \A t \in SyncThreads :
        (FullDone(t) /\ worker[t].end \notin { "dropped", "break" })
           => AllAttempted(worker[t])

\* C8 (amended): a copy that exits non-zero does not end the batch: the loop
\* goes on to the next file, and a batch in which no copy raised another
\* exception and which no disconnect cut short attempts every enumerated file,
\* logs each, and logs the number of enumerated files; a batch cut short by a
\* disconnect still logs that number; only a copy that raises an exception
\* other than CalledProcessError ends the batch, with an error entry and no
\* completion entry.
C8_NonZeroExit ==
    \A t \in SyncThreads :
        LET w == worker[t] IN
        /\ w.pc \in { "dir_loop", "dir_copy" } =>
              /\ \A k \in 1..Len(w.outcomes) : w.outcomes[k] \in { "ok", "nonzero" }
              /\ Len(w.outcomes) = w.i - 1
              /\ \A k \in 1..Len(w.log) : IsPerFileEntry(w.log[k], w.files[k])
        /\ (FullDone(t) /\ w.end = "complete") =>
              /\ AllAttempted(w)
              /\ \A k \in 1..Len(w.outcomes) : w.outcomes[k] \in { "ok", "nonzero" }
        /\ (FullDone(t) /\ w.end = "break") =>
              /\ w.log[Len(w.log)] = CompleteEntry(Len(w.files))
              /\ Len(w.copied) < Len(w.files)
        /\ (FullDone(t) /\ w.end = "error") =>
              /\ w.outcomes[Len(w.outcomes)] = "oserror"
              /\ w.log[Len(w.log)].msg = "Directory sync error"

\* a batch of three files whose middle copy exited non-zero ran to its end
C8_Witness ==
    \E t \in SyncThreads :
        /\ FullDone(t) /\ worker[t].end = "complete"
        /\ worker[t].outcomes = << "ok", "nonzero", "ok" >>

\* ---------------------------------------------------------------- C9
\* C9: an item popped while pico_connected is false starts no copy and is not
\* put back (the queue holds exactly the items put and not yet popped); an
\* item popped while pico_connected is true is executed, whatever
\* pico_connected was when it was put.
C9_DrainTimeCheck ==
    /\ Len(sync_queue) = enq_count - pop_count
    /\ \A t \in SyncThreads :
        LET w == worker[t] IN
        w.item # NoItem =>
            /\ ~w.conn => (w.copied = <<>> /\ w.pc = "done" /\ w.end = "dropped")
            /\ w.conn => w.end # "dropped"
            /\ (w.conn /\ w.item.type = "file") => w.copied = << w.item.data >>

\* a file item put while the device was disconnected is being copied
C9_Witness ==
    \E t \in SyncThreads :
        /\ worker[t].pc = "copy_file"
        /\ ~worker[t].item.enq_conn
        /\ worker[t].conn

\* ---------------------------------------------------------------- C10
Dropped(t) == worker[t].pc = "done" /\ worker[t].end = "dropped"

\* C10 as stated: a dropped item has written a log entry.
C10_Original == \A t \in SyncThreads : Dropped(t) => Len(worker[t].log) >= 1

\* C10 (amended): an item dropped because the device is disconnected at drain
\* time starts no copy and writes no log entry, file item or directory item
\* alike; every item that is not dropped writes at least one entry.
C10_SilentDrop ==
    \A t \in SyncThreads :
        /\ Dropped(t) => (worker[t].log = <<>> /\ worker[t].copied = <<>>)
        /\ (worker[t].pc = "done" /\ worker[t].end # "dropped") => Len(worker[t].log) >= 1

\* a directory item has been dropped
C10_Witness == \E t \in SyncThreads : Dropped(t) /\ worker[t].item.type = "full"

\* ---------------------------------------------------------------- C11
\* C11: the start that follows on_closing (save_config, then load_config and
\* the creation of the Tk variables) leaves the sync directory, auto sync, the
\* file-type pattern, recursion, auto flash, notifications and the log level
\* with the values they had when the window was closed.
C11_RoundTrip ==
    [][(ui_pc = "closed" /\ ui_pc' = "idle")
          => /\ dir_var' = dir_var
             /\ auto_sync_enabled' = auto_sync_enabled
             /\ settings' = settings
             /\ \A k \in ConfigKeys : k \in DOMAIN config' /\ config'[k] = config[k]]_vars

\* the window has been closed and the configuration saved with none of the
\* seven values at its default
C11_Witness ==
    /\ ui_pc = "closed"
    /\ config_file.exists
    /\ dir_var = SyncDir /\ ~auto_sync_enabled
    /\ \A k \in DOMAIN DefaultSettings : settings[k] # DefaultSettings[k]
    /\ config = SavedConfig(EmptyConfig, dir_var, auto_sync_enabled, settings)

\* ---------------------------------------------------------------- C12
\* C12: neither background thread leaves its loop: a poll whose enumeration
\* raised was caught and logged, took no transition for the part it skipped,
\* and is followed by further polls; an exception that leaves the handler of
\* a work item is caught and logged by process_sync_queue, which returns to the
\* top of its loop.
C12_LoopsSurvive ==
    /\ usb_thread = "running"
    /\ \A i \in 1..Len(poll_hist) : poll_hist[i].raised => poll_hist[i].logged
    /\ \A t \in SyncThreads :
          /\ worker[t].pc # "exited"
          /\ worker[t].end = "error" =>
                /\ worker[t].pc = "done"
                /\ worker[t].log # <<>>
                /\ worker[t].log[Len(worker[t].log)].msg = "Sync error"

\* a poll raised and the next poll found the device; after that the second
\* item popped ended in an exception that left sync_single_file
C12_Witness ==
    /\ \E i \in 1..Len(poll_hist) :
          /\ i < Len(poll_hist)
          /\ poll_hist[i].raised
          /\ poll_hist[i+1].events = << "Connected" >>
    /\ \E t \in SyncThreads :
          /\ worker[t].pc = "done" /\ worker[t].end = "error"
          /\ worker[t].item.type = "file"
          /\ pop_count = 2

\* ---------------------------------------------------------------- C13
\* C13 as stated: with copies that may hang, the dispatcher is always
\* eventually back at the top of its loop, ready for the next queued item.
C13_Original == \A t \in SyncThreads : []<>(worker[t].pc = "get")

\* ---------------------------------------------------------------- C14
\* C14: every item put on the queue is popped exactly once: the queue holds
\* exactly the items put and not yet popped, each once and in the order they
\* were put, also when two of them name the same path; a pop removes the head
\* and hands it to the dispatcher, which never puts an item back; and, the
\* dispatcher being scheduled and every gateway call returning, every item put
\* is eventually popped: again and again the dispatcher has popped all the
\* items put so far.
C14_ExactlyOnce ==
    /\ [](/\ Len(sync_queue) = enq_count - pop_count
          /\ \A k \in 1..Len(sync_queue) : sync_queue[k].seq = pop_count + k)
    /\ [][/\ pop_count' \in { pop_count, pop_count + 1 }
          /\ pop_count' = pop_count + 1 =>
                /\ sync_queue' = Tail(sync_queue)
                /\ enq_count' = enq_count
                /\ \E t \in SyncThreads : worker'[t].item = Head(sync_queue)
          /\ pop_count' = pop_count =>
                \/ sync_queue' = sync_queue
                \/ /\ enq_count' = enq_count + 1
                   /\ Len(sync_queue') = Len(sync_queue) + 1
                   /\ sync_queue'[Len(sync_queue')].seq = enq_count']_vars
    /\ []<>(pop_count = enq_count)

\* the same path was put twice: the first item is being copied while the
\* second waits
C14_Witness ==
    \E t \in SyncThreads :
        /\ worker[t].pc = "copy_file" /\ worker[t].item.seq = 1
        /\ Len(sync_queue) = 1
        /\ Head(sync_queue).type = "file"
        /\ Head(sync_queue).data = worker[t].item.data

\* ---------------------------------------------------------------- C15
\* the step in which on_pico_connected runs its part after the model detection
ConnectedHandlerStep == ui_pc = "detect" /\ ui_pc' = "idle"
\* exactly one FullDirectory item for dir was put
PutOneFull(dir) ==
    /\ enq_count' = enq_count + 1
    /\ Len(sync_queue') = Len(sync_queue) + 1
    /\ SubSeq(sync_queue', 1, Len(sync_queue)) = sync_queue
    /\ sync_queue'[Len(sync_queue')].type = "full"
    /\ sync_queue'[Len(sync_queue')].data = DirPath(dir)

\* C15 as stated: the Connected handler, with auto sync on and a directory
\* set, leaves the detector running and puts exactly one FullDirectory item;
\* otherwise it does neither.
C15_Original ==
    [][ConnectedHandlerStep =>
          IF auto_sync_enabled /\ dir_var # ""
          THEN file_observer'.alive /\ PutOneFull(dir_var)
          ELSE UNCHANGED << file_observer, observers, sync_queue, enq_count >>]_vars

\* C15 (amended): the Connected handler, with auto sync on and a directory
\* set: if the directory exists and the watch is set up, leaves exactly one
\* detector running, on that directory, and puts exactly one FullDirectory
\* item for it; if the directory does not exist, leaves the detector as it was
\* and still puts the item; if setting up the watch raises, leaves no detector
\* running and puts nothing.  With auto sync off or no directory set it does
\* neither.
C15_ConnectedHandler ==
    [][ConnectedHandlerStep =>
          IF auto_sync_enabled /\ dir_var # ""
          THEN IF ~dir_exists
               THEN UNCHANGED << file_observer, observers >> /\ PutOneFull(dir_var)
               ELSE IF watch_ok
               THEN /\ file_observer'.alive /\ observers' = 1
                    /\ PutOneFull(dir_var)
               ELSE /\ ~file_observer'.alive /\ observers' = 0
                    /\ UNCHANGED << sync_queue, enq_count >>
          ELSE UNCHANGED << file_observer, observers, sync_queue, enq_count >>]_vars

\* the Connected handler has run with auto sync on and a directory that does
\* not exist: the first item is queued and no detector runs
C15_Witness ==
    /\ pico_connected /\ buttons_enabled /\ ui_pc = "idle"
    /\ auto_sync_enabled /\ config["auto_sync"] /\ dir_var = SyncDir /\ ~dir_exists
    /\ ~file_observer.alive
    /\ enq_count = 1 /\ Len(sync_queue) = 1
    /\ Head(sync_queue).type = "full" /\ Head(sync_queue).enq_conn

\* ---------------------------------------------------------------- C16
\* the step in which the event loop runs on_pico_disconnected
DisconnectedHandlerStep ==
    /\ ui_pc = "idle" /\ ui_queue # <<>>
    /\ Head(ui_queue) = "on_pico_disconnected"
    /\ ui_queue' = Tail(ui_queue)

\* C16: the Disconnected handler leaves no detector running and the device
\* file list empty, and leaves the sync directory, auto sync, the settings,
\* self.config and the configuration file as they were.
C16_DisconnectedHandler ==
    [][DisconnectedHandlerStep =>
          /\ ~file_observer'.alive /\ observers' = 0
          /\ pico_tree' = "empty"
          /\ UNCHANGED << dir_var, auto_sync_enabled, settings, config, config_file >>]_vars

\* the Disconnected handler is run with a detector running and the device
\* file list filled
C16_Witness ==
    /\ ui_pc = "idle" /\ ui_queue # <<>>
    /\ Head(ui_queue) = "on_pico_disconnected"
    /\ file_observer.alive /\ pico_tree = "listed"
    /\ dir_var = SyncDir /\ auto_sync_enabled

\* ---------------------------------------------------------------- C17
\* C17: at most one Observer is alive, and it is the one file_observer refers
\* to: a start on a running detector has stopped it first, and a stop has
\* ended it.
C17_OneObserver ==
    /\ observers <= 1
    /\ file_observer.alive <=> observers = 1

\* a detector runs without recursion: recursion was switched off and saved,
\* and the detector started after that, with the device connected and its
\* handler done
C17_Witness ==
    /\ file_observer.alive /\ ~file_observer.recursive /\ observers = 1
    /\ pico_connected /\ buttons_enabled /\ enq_count = 1

\* ---------------------------------------------------------------- C18
\* the transitions of a poll that finds neither sentinel nor port
NoDeviceEvents(h) ==
    (IF h.pre_bootsel THEN << "BootloaderLost" >> ELSE <<>>) \o
    (IF h.pre_conn THEN << "Disconnected" >> ELSE <<>>)

\* C18 as stated: a poll whose enumeration raised takes the transitions of a
\* poll that found no device, and leaves the recorded state at 'no device'.
C18_Original ==
    \A i \in 1..Len(poll_hist) :
        poll_hist[i].raised =>
            /\ poll_hist[i].events = NoDeviceEvents(poll_hist[i])
            /\ i = Len(poll_hist) => (~bootsel_detected /\ ~pico_connected)

\* ---------------------------------------------------------------- C19
\* the guard flag after poll i
FlagAfter(i) == IF i < Len(poll_hist) THEN poll_hist[i+1].pre_bootsel ELSE bootsel_detected
Detects(i) == Has(poll_hist[i].events, "BootloaderDetected")
Loses(i) == Has(poll_hist[i].events, "BootloaderLost")

\* C19: on_bootsel_detected is scheduled exactly on the polls that find the
\* sentinel with the guard flag clear, once, and the flag is set by that poll;
\* the flag is cleared exactly by the polls that find no sentinel with the
\* flag set, whatever the serial signal does; so between two runs of the
\* handler there is a poll that found no sentinel, and the poll that finds the
\* sentinel after such a poll schedules the handler again.
C19_OfferedOnce ==
    /\ \A i \in 1..Len(poll_hist) :
          LET h == poll_hist[i] IN
          /\ Detects(i) <=> (h.bootsel /\ ~h.pre_bootsel)
          /\ Detects(i) => FlagAfter(i)
          /\ Loses(i) => (~h.bootsel /\ h.pre_bootsel)
          /\ (h.pre_bootsel /\ ~FlagAfter(i)) <=> Loses(i)
          /\ (~h.pre_bootsel /\ FlagAfter(i)) <=> Detects(i)
          /\ CountIn(h.events, { "BootloaderDetected" }) <= 1
    /\ \A i, j \in 1..Len(poll_hist) :
          (i < j /\ Detects(i) /\ Detects(j))
             => \E k \in (i+1)..(j-1) : Loses(k) /\ ~poll_hist[k].bootsel
    /\ CountIn(ui_queue, { "on_bootsel_detected" })
          = Cardinality({ i \in 1..Len(poll_hist) : Detects(i) })

\* the sentinel was found, stayed while the serial port came and went, was
\* lost and was found again: the handler was scheduled twice
C19_Witness ==
    /\ Len(poll_hist) = 4
    /\ poll_hist[1].events = << "BootloaderDetected", "Connected" >>
    /\ poll_hist[2].bootsel /\ poll_hist[2].events = << "Disconnected" >>
    /\ poll_hist[3].events = << "BootloaderLost" >>
    /\ poll_hist[4].events = << "BootloaderDetected" >>

\* ---------------------------------------------------------------- C20
\* C20 as stated: a directory sync that is not ended by an exception has
\* started a copy for every enumerated file, disconnect or not.
C20_Original ==
    \A t \in SyncThreads :
        (FullDone(t) /\ worker[t].end \in { "break", "complete" })
           => worker[t].copied = worker[t].files

\* C20 (amended): a disconnect does not cancel the copy in flight, but it cuts
\* the batch short at the next file: at the head of the loop, with files left
\* and the device disconnected, the dispatcher starts no further copy, logs
\* the completion entry with the number of enumerated files and returns; with
\* the device connected it starts the copy of the next file.
C20_CutShort ==
    [][\A t \in SyncThreads :
          LET w == worker[t] IN
          (w.pc = "dir_loop" /\ w.i <= Len(w.files) /\ worker'[t] # w) =>
             IF pico_connected
             THEN /\ worker'[t].pc = "dir_copy"
                  /\ worker'[t].copied = Append(w.copied, w.files[w.i])
             ELSE /\ worker'[t].pc = "done" /\ worker'[t].end = "break"
                  /\ worker'[t].copied = w.copied
                  /\ Len(worker'[t].copied) < Len(w.files)
                  /\ worker'[t].log = Append(w.log, CompleteEntry(Len(w.files)))]_vars

\* a batch of three files was cut short after its first copy
C20_Witness ==
    \E t \in SyncThreads :
        /\ FullDone(t) /\ worker[t].end = "break"
        /\ Len(worker[t].files) = 3 /\ Len(worker[t].copied) = 1
        /\ Len(worker[t].outcomes) = 1

\* ---------------------------------------------------------------- C21
\* C21 as stated: no widget call is made on a thread other than the Tk
\* thread; the background threads hand every widget change to the event loop.
C21_Original == direct_writes = {}

\* ---------------------------------------------------------------- C22
\* a step that calls start_file_watching() with a sync directory set: auto
\* sync is toggled on with the device connected, or the connect handler
\* finishes with auto sync on
NeedsWatchStep ==
    /\ dir_var # ""
    /\ \/ ui_pc = "idle" /\ ui_pc' = "idle" /\ ~auto_sync_enabled /\ auto_sync_enabled'
          /\ pico_connected
       \/ ui_pc = "detect" /\ ui_pc' = "idle" /\ auto_sync_enabled

\* C22 as stated: when an action that needs the watch ends with no watch
\* running, the user was told: it did not return silently.
C22_Original ==
    [][(NeedsWatchStep /\ ~file_observer'.alive)
          => StartWatchingReport(dir_var, dir_exists, watch_ok) # "nothing"]_vars

\* ---------------------------------------------------------------- C23
Entries(kind) == { i \in 1..Len(ev_hist) : ev_hist[i].kind = kind }

\* C23: a 'created' event emits a change event exactly when its path is a
\* non-directory ending in '.py', whatever the ledger holds, so also less than
\* a window after an accepted event on that path; the emission comes after the
\* sleep, once, and leaves the ledger as it was; hence a 'modified' event is
\* suppressed only by an accepted 'modified' event less than a window before
\* it, never by a creation.
C23_CreatedUnconditional ==
    /\ [](/\ \A i \in Entries("created") :
               ev_hist[i].accepted <=> (~ev_hist[i].is_dir /\ EndsWithPy(ev_hist[i].path))
          /\ \A j \in Entries("modified") :
               ev_hist[j].accepted <=>
                  /\ ~ev_hist[j].is_dir /\ EndsWithPy(ev_hist[j].path)
                  /\ ~\E i \in Entries("modified") :
                        /\ i < j /\ ev_hist[i].path = ev_hist[j].path
                        /\ ev_hist[i].accepted
                        /\ ev_hist[j].t - ev_hist[i].t < Window
          /\ enq_count = Cardinality({ i \in 1..Len(ev_hist) : ev_hist[i].accepted }))
    /\ [][(created_sleep # NoSleep /\ created_sleep' = NoSleep) =>
             /\ last_modified' = last_modified
             /\ enq_count' = enq_count + 1
             /\ Len(sync_queue') = Len(sync_queue) + 1
             /\ sync_queue'[Len(sync_queue')].data = created_sleep.path]_vars

\* a creation emitted less than a window after an accepted modification of
\* the same path, and a modification accepted right after a creation
C23_Witness ==
    \E p \in MatchingPaths : \E i, j, k, l \in 1..Len(ev_hist) :
        /\ i < j /\ j < k /\ l = k + 1
        /\ \A n \in { i, j, k, l } : ev_hist[n].path = p /\ ev_hist[n].accepted
        /\ ev_hist[i].kind = "modified" /\ ev_hist[j].kind = "created"
        /\ ev_hist[j].t - ev_hist[i].t < Window
        /\ ev_hist[k].kind = "created" /\ ev_hist[l].kind = "modified"
        /\ ev_hist[l].t = ev_hist[k].t

\* ---------------------------------------------------------------- C24
AcceptedOn(p) == { i \in Entries("modified") : ev_hist[i].path = p /\ ev_hist[i].accepted }

\* C24: the ledger holds, for every path, the time of the last accepted
\* 'modified' event (no entry when none was accepted); a discarded event
\* leaves the ledger as it was, an accepted one sets the entry of its own path
\* to the current time and no other, and an entry is never removed; an event
\* on a matching file that comes a window or more after the last accepted one
\* is accepted, however many discarded events came in between.
C24_Ledger ==
    /\ [](\A p \in WatchPaths :
             last_modified[p] = IF AcceptedOn(p) = {} THEN NoTime
                                ELSE ev_hist[MaxOf(AcceptedOn(p))].t)
    /\ [][/\ \A p \in WatchPaths : last_modified[p] # NoTime => last_modified'[p] # NoTime
          /\ Len(ev_hist') = Len(ev_hist) + 1 =>
                LET e == ev_hist'[Len(ev_hist')] IN
                e.kind = "modified" =>
                   /\ last_modified' = IF e.accepted
                                        THEN [last_modified EXCEPT ![e.path] = now]
                                        ELSE last_modified
                   /\ (/\ ~e.is_dir /\ EndsWithPy(e.path)
                       /\ last_modified[e.path] # NoTime
                       /\ now - last_modified[e.path] >= Window) => e.accepted]_vars

\* a stream of three events on one file, each less than a window after the
\* one before: the first and the third are accepted, two files are in the
\* ledger
C24_Witness ==
    /\ \E p \in MatchingPaths : \E i, j, k \in EventsOn(p) :
          /\ j = i + 1 /\ k = j + 1
          /\ ev_hist[j].t - ev_hist[i].t < Window /\ ev_hist[k].t - ev_hist[j].t < Window
          /\ ev_hist[j].t > ev_hist[i].t
          /\ ev_hist[i].accepted /\ ~ev_hist[j].accepted /\ ev_hist[k].accepted
          /\ last_modified[p] = ev_hist[k].t
    /\ Cardinality({ p \in WatchPaths : last_modified[p] # NoTime }) = 2

\* ---------------------------------------------------------------- C25
\* C25 as stated: when the identification of a connect handler fails, the
\* recorded variant is unknown afterwards, and the handler goes on to start
\* the watch and enqueue the full sync if auto sync is on.
C25_Original ==
    [][(ui_pc = "detect" /\ ui_pc' = "idle" /\ detect_result \in DetectFailures) =>
          /\ pico_model' = None
          /\ AutoStarts(auto_sync_enabled, dir_var) =>
                file_observer'.alive /\ enq_count' = enq_count + 1]_vars

C27_Original ==
    \A i \in 1..Len(bootsel_passed) : bootsel_passed[i].passed = bootsel_passed[i].found

\* ---------------------------------------------------------------- C28
\* every connect and disconnect callback the monitor scheduled has run and no
\* handler of the Tk thread is in progress
Quiescent ==
    /\ ui_pc = "idle"
    /\ ~Has(ui_queue, "on_pico_connected") /\ ~Has(ui_queue, "on_pico_disconnected")

OkCopies(w) ==
    SelectSeq([k \in 1..Len(w.outcomes) |-> [f |-> w.copied[k], out |-> w.outcomes[k]]],
              LAMBDA c : c.out = "ok")
NamesWritten(w) == { w.remote[k].name : k \in 1..Len(w.remote) }
\* the local file whose content the device holds under name n after w
HeldUnder(w, n) ==
    w.remote[MaxOf({ k \in 1..Len(w.remote) : w.remote[k].name = n })].src

\* C29: every copy writes the remote name that is the basename of the local
\* file, at the top level of the device; the copies of a work item that
\* succeeded wrote in the order they were made, so a remote name holds the
\* content of the last file enumerated among those copied under it, and the
\* names written are no more than the copies made.
C29_BasenameCollide ==
    \A t \in SyncThreads :
        LET w == worker[t] IN
        /\ \A k \in 1..Len(w.remote) :
              /\ w.remote[k].name = Basename(w.remote[k].src)
              /\ w.remote[k].name.dir = ""
        /\ Len(w.remote) = Len(OkCopies(w))
        /\ \A k \in 1..Len(w.remote) : w.remote[k].src = OkCopies(w)[k].f
        /\ Cardinality(NamesWritten(w)) <= Len(w.copied)
        /\ \A n \in NamesWritten(w) :
              \A k \in 1..Len(w.remote) :
                 w.remote[k].name = n =>
                    \E i, j \in 1..Len(FileOrder) :
                       /\ FileOrder[i] = w.remote[k].src
                       /\ FileOrder[j] = HeldUnder(w, n)
                       /\ i <= j

\* a recursive batch copied a.py and sub/a.py: three copies, two names, and
\* a.py on the device holds the content of sub/a.py
C29_Witness ==
    \E t \in SyncThreads :
        LET w == worker[t] IN
        /\ FullDone(t) /\ w.end = "complete"
        /\ Len(w.copied) = 3 /\ Len(w.remote) = 3
        /\ Cardinality(NamesWritten(w)) = 2
        /\ HeldUnder(w, File("", "a", "py")) = File("sub", "a", "py")

\* ---------------------------------------------------------------- C30
\* C30: switching auto sync off stops the Observer and leaves the queue as it
\* is; an item leaves the queue only by being popped; an item popped while
\* the device is connected is copied, auto sync on or off; and, the dispatcher
\* being scheduled and every gateway call returning, the items that are on
\* the queue when auto sync is off are popped.
C30_QueuedSurvive ==
    /\ [][(auto_sync_enabled /\ ~auto_sync_enabled') =>
             (sync_queue' = sync_queue /\ ~file_observer'.alive)]_vars
    /\ [][Len(sync_queue') < Len(sync_queue) =>
             (sync_queue' = Tail(sync_queue) /\ pop_count' = pop_count + 1)]_vars
    /\ [][(pop_count' = pop_count + 1 /\ pico_connected) =>
             \E t \in SyncThreads :
                /\ worker'[t].item = Head(sync_queue)
                /\ worker'[t].pc \in { "copy_file", "dir_loop" }]_vars
    /\ \A k \in 1..MaxEnq :
          [](~auto_sync_enabled /\ enq_count >= k => <>(pop_count >= k))

\* auto sync is off and the Observer stopped; a change the watcher reported
\* before that, behind the full sync of the toggle, is being copied
C30_Witness ==
    /\ ~auto_sync_enabled /\ ~file_observer.alive /\ pico_connected
    /\ \E t \in SyncThreads :
          /\ worker[t].pc = "copy_file" /\ worker[t].item.type = "file"
          /\ worker[t].item.seq = 2

====
